---- MODULE Spec2Model ----
(***************************************************************************)
(* Model of krischien/email_verifier: the verification pipeline            *)
(* (syntax -> MX lookup -> SMTP probe, fast and standard strategy) of      *)
(* src/email_verifier.py and the thread-pool collector that drives it.     *)
(*                                                                         *)
(* and the campaign dispatcher of src/email_sender.py.                     *)
(*                                                                         *)
(* Specifications:                                                         *)
(*   SpecProbe  one SMTP probe applied to every DNS answer and every       *)
(*              behaviour of the exchangers (the probe is a function of    *)
(*              what the network answers);                                 *)
(*   Spec       one verify_emails_batch call: the pipelines on the worker  *)
(*              pool, the collector loop and cancel_verification;          *)
(*   SpecFair   Spec with the progress its threads are sure to make;       *)
(*   SpecCli    Spec followed by the caller's tally of the returned list;  *)
(*   SpecSender one EmailSender: send_bulk_emails, its worker threads and  *)
(*              cancel_sending;                                            *)
(*   SpecSenderFair  SpecSender with the progress the threads are sure to  *)
(*              make;                                                      *)
(*   SpecCalls  SpecSender with the caller's direct calls of               *)
(*              test_connection and send_single_email.                     *)
(***************************************************************************)
EXTENDS Integers, Sequences, FiniteSets

(***************************************************************************)
(* Part 1: the SMTP probe (check_smtp_connection_fast / _standard)         *)
(***************************************************************************)

\* What the network can answer.  An MX record is a preference and a host.
MX(p, e) == [preference |-> p, exchange |-> e]

Exchanges == {"mxA", "mxB", "mxC"}

\* DNS answers of the probe's own MX query, in the order the resolver gives.
DnsAnswers ==
    { << >>,
      << MX(10, "mxA") >>,
      << MX(10, "mxA"), MX(20, "mxB") >>,
      << MX(20, "mxB"), MX(10, "mxA") >>,
      << MX(10, "mxA"), MX(10, "mxB") >>,
      << MX(30, "mxC"), MX(20, "mxB"), MX(10, "mxA") >>,
      << MX(10, "mxA"), MX(30, "mxC"), MX(20, "mxB") >> }

\* Exceptions smtplib / socket can raise, by the class the handlers test.
\* OSError stands for every exception only `except Exception` catches
\* (socket errors, timeouts, SMTPServerDisconnected, SMTPNotSupportedError).
NoExc == [cls |-> "none", smtp_code |-> 0]
RecipientsRefused == [cls |-> "SMTPRecipientsRefused", smtp_code |-> 0]
Response(c) == [cls |-> "SMTPResponseException", smtp_code |-> c]
OtherError == [cls |-> "OSError", smtp_code |-> 0]

\* Reply codes an exchanger gives to RCPT TO.
RcptCodes == {250, 550, 450}

\* The calls of one session, in the order each mode makes them.
FastCommands == << "connect", "helo", "rcpt", "quit" >>
\* Mutant: the standard session without MAIL FROM.
StandardCommands_NoMail == << "connect", "starttls", "helo", "rcpt", "quit" >>

StandardCommands == << "connect", "starttls", "helo", "mail", "rcpt", "quit" >>

\* What each call can raise: SMTP(...) an SMTPConnectError carrying the
\* greeting's code, starttls() an SMTPHeloError or SMTPResponseException;
\* every call can lose the connection.
Raises(call) ==
    CASE call = "connect" -> {Response(550), Response(421), OtherError}
      [] call = "starttls" -> {Response(550), Response(421), OtherError}
      [] call = "rcpt" -> {RecipientsRefused, OtherError}
      [] OTHER -> {OtherError}

\* Reply codes an exchanger gives to MAIL FROM: mail() returns the reply,
\* it does not raise on a rejection.
MailCodes == {250, 550}

\* How one exchanger behaves: the call at which it makes the client raise
\* (failAt, "none" for a clean session) and its reply codes to MAIL FROM
\* and to RCPT TO.  (The codes are left at 250 where they make no
\* difference to either mode.)
Behaviours ==
    { [failAt |-> "none", exc |-> NoExc, code |-> c, mail |-> m] :
        c \in RcptCodes, m \in MailCodes }
    \cup UNION { { [failAt |-> s, exc |-> x, code |-> c, mail |-> 250] :
                     x \in Raises(s), c \in RcptCodes } :
                 s \in {"starttls", "mail", "quit"} }
    \cup UNION { { [failAt |-> s, exc |-> x, code |-> 250, mail |-> 250] :
                     x \in Raises(s) } :
                 s \in {"connect", "helo", "rcpt"} }

\* mxC is only ever third in preference; two behaviours are enough to tell
\* whether it was contacted.
BehavioursC ==
    { [failAt |-> "none", exc |-> NoExc, code |-> c, mail |-> 250] : c \in {250, 550} }

\* The MX query of the probe either raises or gives one of the answers.
DnsOutcomes ==
    { [dnsRaises |-> TRUE, answer |-> << >>] }
    \cup { [dnsRaises |-> FALSE, answer |-> a] : a \in DnsAnswers }

Scenarios ==
    { [dnsRaises |-> d.dnsRaises, answer |-> d.answer, hosts |-> h] :
        d \in DnsOutcomes,
        h \in { [mxA |-> ba, mxB |-> bb, mxC |-> bc] :
                  ba \in Behaviours, bb \in Behaviours, bc \in BehavioursC } }

Position(seq, x) == CHOOSE k \in 1..Len(seq) : seq[k] = x

Prefix(seq, k) == [j \in 1..k |-> seq[j]]

\* sorted(mx_records, key=lambda x: x.preference): stable insertion sort.
RECURSIVE InsertByPreference(_, _)
InsertByPreference(sorted, r) ==
    IF sorted = << >> THEN << r >>
    ELSE IF Head(sorted).preference <= r.preference
         THEN << Head(sorted) >> \o InsertByPreference(Tail(sorted), r)
         ELSE << r >> \o sorted

RECURSIVE SortByPreference(_)
SortByPreference(records) ==
    IF records = << >> THEN << >>
    ELSE InsertByPreference(SortByPreference(Prefix(records, Len(records) - 1)),
                            records[Len(records)])

\* The reply to MAIL FROM the client got: 0 when mail() was not called or
\* did not return.
MailReply(made, b) ==
    IF \E k \in 1..Len(made) : made[k] = "mail" /\ b.failAt # "mail"
    THEN b.mail ELSE 0

\* One session against exchanger e: the calls made up to the one that raises
\* (all of them when none does), the exception, the RCPT TO reply code when
\* rcpt returned and the MAIL FROM reply code when mail returned.
RunSession(commands, e, b) ==
    IF \E k \in 1..Len(commands) : commands[k] = b.failAt
    THEN LET k == Position(commands, b.failAt) IN
         [exchange |-> e, commands |-> Prefix(commands, k), exc |-> b.exc,
          code |-> IF b.failAt = "quit" THEN b.code ELSE 0,
          mail |-> MailReply(Prefix(commands, k), b)]
    ELSE [exchange |-> e, commands |-> commands, exc |-> NoExc, code |-> b.code,
          mail |-> MailReply(commands, b)]

\* if code == 250 / elif code == 550 / else
ClassifyCode(code) ==
    IF code = 250 THEN "valid"
    ELSE IF code = 550 THEN "invalid"
    ELSE "risky"

\* Mutant: every SMTPResponseException is taken for a refusal.
ClassifyAttempt_AnyResponseInvalid(s, other) ==
    IF s.exc = NoExc THEN ClassifyCode(s.code)
    ELSE IF s.exc.cls = "SMTPRecipientsRefused" THEN "invalid"
    ELSE IF s.exc.cls = "SMTPResponseException" THEN "invalid"
    ELSE other

\* The except clauses of one attempt; other is what `except Exception` does
\* ("risky" in fast mode, "continue" in standard mode).
ClassifyAttempt(s, other) ==
    IF s.exc = NoExc THEN ClassifyCode(s.code)
    ELSE IF s.exc.cls = "SMTPRecipientsRefused" THEN "invalid"
    ELSE IF s.exc.cls = "SMTPResponseException"
         THEN (IF s.exc.smtp_code = 550 THEN "invalid" ELSE "risky")
    ELSE other

ProbeReturn(r, ss) == [result |-> r, sessions |-> ss]

\* Mutant: the fast probe takes the first record of the answer as listed.
check_smtp_connection_fast_FirstListed(scn) ==
    IF scn.dnsRaises THEN ProbeReturn("invalid", << >>)
    ELSE IF scn.answer = << >> THEN ProbeReturn("invalid", << >>)
    ELSE LET mx_record == scn.answer[1]
             s == RunSession(FastCommands, mx_record.exchange,
                             scn.hosts[mx_record.exchange])
         IN ProbeReturn(ClassifyAttempt(s, "risky"), << s >>)

\* check_smtp_connection_fast
check_smtp_connection_fast(scn) ==
    IF scn.dnsRaises THEN ProbeReturn("invalid", << >>)
    ELSE IF scn.answer = << >> THEN ProbeReturn("invalid", << >>)
    ELSE LET mx_record == SortByPreference(scn.answer)[1]
             s == RunSession(FastCommands, mx_record.exchange,
                             scn.hosts[mx_record.exchange])
         IN ProbeReturn(ClassifyAttempt(s, "risky"), << s >>)

\* Mutant: the loop gives up at the first exchanger that cannot be probed.
StandardLoop_NoContinue(scn, todo, done) ==
    IF todo = << >> THEN ProbeReturn("risky", done)
    ELSE LET s == RunSession(StandardCommands, Head(todo).exchange,
                             scn.hosts[Head(todo).exchange])
             c == ClassifyAttempt(s, "continue")
         IN IF c = "continue"
            THEN ProbeReturn("risky", Append(done, s))
            ELSE ProbeReturn(c, Append(done, s))

\* The for loop of check_smtp_connection_standard over mx_records[:2].
RECURSIVE StandardLoop(_, _, _)
StandardLoop(scn, todo, done) ==
    IF todo = << >> THEN ProbeReturn("risky", done)
    ELSE LET s == RunSession(StandardCommands, Head(todo).exchange,
                             scn.hosts[Head(todo).exchange])
             c == ClassifyAttempt(s, "continue")
         IN IF c = "continue"
            THEN StandardLoop(scn, Tail(todo), Append(done, s))
            ELSE ProbeReturn(c, Append(done, s))

\* check_smtp_connection_standard
check_smtp_connection_standard(scn) ==
    IF scn.dnsRaises THEN ProbeReturn("risky", << >>)
    ELSE IF scn.answer = << >> THEN ProbeReturn("invalid", << >>)
    ELSE LET mx_records == SortByPreference(scn.answer)
         IN StandardLoop(scn, Prefix(mx_records, IF Len(mx_records) < 2
                                                  THEN Len(mx_records) ELSE 2),
                         << >>)

\* What a probe can return, over everything the network can answer.
FastOutcomes == { check_smtp_connection_fast(s).result : s \in Scenarios }
StandardOutcomes == { check_smtp_connection_standard(s).result : s \in Scenarios }

(***************************************************************************)
(* Part 2: verify_single_email, verify_emails_batch, cancel_verification   *)
(***************************************************************************)

\* Bounds of the model.
NumEmails == 2
MaxWorkers == 2

\* min(self.max_workers, len(emails), 50)
HardCap == 50

VARIABLES
    \* the probe under SpecProbe
    pMode,        \* "fast" or "standard"
    pScn,         \* what the network answers
    pDone,        \* the probe has returned
    pOut,         \* its return value and the sessions it opened
    \* inputs of the batch
    emails,       \* the submitted list: addresses 1..Len(emails)
    max_workers,  \* self.max_workers
    fast_mode,    \* self.fast_mode
    callback,     \* the caller passes a progress_callback
    \* EmailVerifier fields
    cancelled,    \* self.cancelled
    progress,     \* self.progress
    total_emails, \* self.total_emails
    \* verify_emails_batch
    bpc,          \* position of the caller in verify_emails_batch
    future,       \* per address: state of its future / position of its pipeline
    entry,        \* per address: what its pipeline read of self.cancelled on entry
    result,       \* per address: the result dict of its pipeline
    calls,        \* per address: syntax checks, MX lookups, SMTP probes made
    syntax,       \* per address: what validate_email did ("ok", "bad", "raise")
    lookup,       \* per address: what the MX query did ("records", "none", "error")
    yielded,      \* futures as_completed has yielded
    cur,          \* the future the loop body is handling
    results,      \* the list being returned
    cblog,        \* the calls of progress_callback so far: <<done, total>>
    \* history
    cancelAt,     \* when cancel_verification was called: first in this batch
                  \* ("prestart", "mid"), else before it ("precall"), else "never"
    broke,        \* the collector left the loop on the flag
    \* EmailSender fields
    is_sending,     \* self.is_sending
    send_cancelled, \* self.cancelled of the sender
    campaign_stats, \* self.campaign_stats
    current_thread, \* self.current_thread: 0 for None, else the thread
    \* the threads around the sender
    caller,         \* the calling thread: "idle" or inside cancel_sending's join
    last_return,    \* the status of the dict the caller's latest call returned
    worker          \* per thread: position in _send_bulk_emails_worker, its
                    \* arguments and locals, and what it has done so far

probeVars == << pMode, pScn, pDone, pOut >>
inputVars == << emails, max_workers, fast_mode, callback >>
batchVars == << cancelled, progress, total_emails, bpc, future, entry, result, calls,
                syntax, lookup, yielded, cur, results, cblog >>
histVars == << cancelAt, broke >>
senderVars == << is_sending, send_cancelled, campaign_stats, current_thread,
                caller, last_return, worker >>
vars == << probeVars, inputVars, batchVars, histVars, senderVars >>

Addresses == 1..NumEmails
Submitted == 1..Len(emails)

NoResult == [email |-> 0, format |-> FALSE, mx |-> FALSE,
             ping |-> "none", status |-> "none"]

NoCalls == [format |-> 0, dns |-> 0, smtp |-> 0]

\* A scenario for the probe variables while no probe is modelled.
IdleScenario ==
    [dnsRaises |-> TRUE, answer |-> << >>,
     hosts |-> [e \in Exchanges |->
                  [failAt |-> "none", exc |-> NoExc, code |-> 250, mail |-> 250]]]

ProbeIdle ==
    /\ pMode = "fast"
    /\ pScn = IdleScenario
    /\ pDone = FALSE
    /\ pOut = ProbeReturn("none", << >>)

\* Bounds of the sender's model: threads started, and targets submitted
\* over all the campaigns of a run.
MaxCampaigns == 2
MaxTargets == 2

Threads == 1..MaxCampaigns

\* campaign_stats as __init__ builds it.
InitialStats ==
    [total_sent |-> 0, successful |-> 0, failed |-> 0,
     start_time |-> "None", end_time |-> "None"]

\* A thread that has not been created.
NoWorker ==
    [pc |-> "none", i |-> 0, n |-> 0, cb |-> FALSE, status |-> "none",
     why |-> "none", log |-> << >>, flagged |-> FALSE]

\* A thread that has ended: its locals are gone; why it left the loop and
\* the length of its list are kept.
Terminated(v) == [NoWorker EXCEPT !.pc = "exited", !.why = v.why, !.n = v.n]

\* EmailSender.__init__ and no campaign started.
SenderIdle ==
    /\ is_sending = FALSE
    /\ send_cancelled = FALSE
    /\ campaign_stats = InitialStats
    /\ current_thread = 0
    /\ caller = "idle"
    /\ last_return = "none"
    /\ worker = [w \in Threads |-> NoWorker]

\* EmailVerifier.__init__ and no batch started.
VerifierIdle ==
    /\ cancelled = FALSE
    /\ progress = 0
    /\ total_emails = 0
    /\ bpc = "idle"
    /\ future = [i \in Addresses |-> "none"]
    /\ entry = [i \in Addresses |-> "none"]
    /\ result = [i \in Addresses |-> NoResult]
    /\ calls = [i \in Addresses |-> NoCalls]
    /\ syntax = [i \in Addresses |-> "unchecked"]
    /\ lookup = [i \in Addresses |-> "unchecked"]
    /\ yielded = {}
    /\ cur = 0
    /\ results = << >>
    /\ cblog = << >>
    /\ cancelAt = "never"
    /\ broke = FALSE

\* The verifier as constructed and the arguments of the call to come.
Init ==
    /\ ProbeIdle
    /\ emails \in { [k \in 1..m |-> k] : m \in 0..NumEmails }
    /\ max_workers \in 1..MaxWorkers
    /\ fast_mode \in BOOLEAN
    /\ callback \in BOOLEAN
    /\ VerifierIdle
    /\ SenderIdle

Min(a, b) == IF a < b THEN a ELSE b

\* Mutant: a pool as large as the list, whatever max_workers says.
optimal_workers_Uncapped == Len(emails)

optimal_workers == Min(Min(max_workers, Len(emails)), HardCap)

Running == { i \in Submitted : future[i] = "running" }
Finished == { i \in Submitted : future[i] \in {"done", "raised"} }

CancelledResult(i) == [email |-> i, status |-> "cancelled", format |-> FALSE,
                       mx |-> FALSE, ping |-> "cancelled"]

InitialResult(i) == [email |-> i, format |-> FALSE, mx |-> FALSE,
                     ping |-> "invalid", status |-> "invalid"]

ErrorResult(i) == [email |-> i, status |-> "error", format |-> FALSE,
                   mx |-> FALSE, ping |-> "error"]

\* verify_emails_batch up to the submission of the futures.  An empty list
\* makes ThreadPoolExecutor(max_workers=0) raise ValueError.
BatchCall ==
    /\ bpc = "idle"
    /\ total_emails' = Len(emails)
    /\ progress' = 0
    /\ cancelled' = FALSE
    /\ results' = << >>
    /\ IF optimal_workers <= 0
       THEN /\ bpc' = "raised"
            /\ UNCHANGED future
       ELSE /\ bpc' = "collect"
            /\ future' = [i \in Addresses |-> IF i \in Submitted THEN "pending" ELSE "none"]
    /\ UNCHANGED << entry, result, calls, syntax, lookup, yielded, cur, cblog >>
    /\ UNCHANGED << senderVars, probeVars, inputVars, histVars >>

\* Mutant: verify_single_email without its test of self.cancelled.
PipelineStart_NoCheck(i) ==
    /\ future[i] = "pending"
    /\ \A j \in Submitted : j < i => future[j] # "pending"
    /\ Cardinality(Running) < optimal_workers
    /\ entry' = [entry EXCEPT ![i] = IF cancelled THEN "set" ELSE "clear"]
    /\ future' = [future EXCEPT ![i] = "running"]
    /\ UNCHANGED << cancelled, progress, total_emails, bpc, result, calls, syntax,
                    lookup, yielded, cur, results >>
    /\ UNCHANGED << cblog, senderVars, probeVars, inputVars, histVars >>

\* A worker takes the next queued future and runs verify_single_email up
\* to its test of self.cancelled: set, it returns the cancelled result.
PipelineStart(i) ==
    /\ future[i] = "pending"
    /\ \A j \in Submitted : j < i => future[j] # "pending"
    /\ Cardinality(Running) < optimal_workers
    /\ entry' = [entry EXCEPT ![i] = IF cancelled THEN "set" ELSE "clear"]
    /\ IF cancelled
       THEN /\ future' = [future EXCEPT ![i] = "done"]
            /\ result' = [result EXCEPT ![i] = CancelledResult(i)]
       ELSE /\ future' = [future EXCEPT ![i] = "running"]
            /\ UNCHANGED result
    /\ UNCHANGED << cancelled, progress, total_emails, bpc, calls, syntax, lookup,
                    yielded, cur, results >>
    /\ UNCHANGED << cblog, senderVars, probeVars, inputVars, histVars >>

\* check_email_format: True, False on EmailNotValidError; any other
\* exception is not caught.
check_email_format(v) ==
    IF v = "ok" THEN "True" ELSE IF v = "bad" THEN "False" ELSE "raise"

\* What resolver.resolve(domain, 'MX') can do: answer with records, answer
\* with none, or raise (NXDOMAIN, NoAnswer, timeout).
MXQuery == {"records", "none", "error"}

\* What validate_email can do: return, raise EmailNotValidError ("bad"), or
\* raise anything else ("raise": a TypeError on a cell that is no string).
Validation == {"ok", "bad", "raise"}

\* Mutant: an empty answer counts as having MX records.
check_mx_record_EmptyIsTrue(answer) == answer # "error"

\* check_mx_record: True only for a non-empty answer, False on any exception.
check_mx_record(answer) == answer = "records"

\* A pipeline past its entry check: where it stands (at), its result dict,
\* the calls it has made and what they gave.
PipelineEntry(i) ==
    [at |-> "format", result |-> InitialResult(i), calls |-> NoCalls,
     syntax |-> "unchecked", lookup |-> "unchecked"]

\* Mutant: the format check without the early return.
FormatStep_NoReturn(p, v) ==
    LET q == [p EXCEPT !.calls.format = @ + 1, !.syntax = v] IN
    CASE check_email_format(v) = "True" ->
           [q EXCEPT !.result.format = TRUE, !.at = "mx"]
      [] check_email_format(v) = "False" ->
           [q EXCEPT !.result.format = FALSE, !.result.status = "invalid",
                     !.at = "mx"]
      [] check_email_format(v) = "raise" ->
           [q EXCEPT !.result = NoResult, !.at = "raised"]

\* Step 1: the format check; return result when it fails.  An exception
\* leaves verify_single_email.
FormatStep(p, v) ==
    LET q == [p EXCEPT !.calls.format = @ + 1, !.syntax = v] IN
    CASE check_email_format(v) = "True" ->
           [q EXCEPT !.result.format = TRUE, !.at = "mx"]
      [] check_email_format(v) = "False" ->
           [q EXCEPT !.result.format = FALSE, !.result.status = "invalid",
                     !.at = "done"]
      [] check_email_format(v) = "raise" ->
           [q EXCEPT !.result = NoResult, !.at = "raised"]

\* Mutant: the MX check without the early return.
MXStep_NoReturn(p, answer) ==
    LET q == [p EXCEPT !.calls.dns = @ + 1, !.lookup = answer] IN
    IF check_mx_record(answer)
    THEN [q EXCEPT !.result.mx = TRUE, !.at = "smtp"]
    ELSE [q EXCEPT !.result.mx = FALSE, !.result.status = "invalid", !.at = "smtp"]

\* Step 2: the MX check; return result when there is no MX.
MXStep(p, answer) ==
    LET q == [p EXCEPT !.calls.dns = @ + 1, !.lookup = answer] IN
    IF check_mx_record(answer)
    THEN [q EXCEPT !.result.mx = TRUE, !.at = "smtp"]
    ELSE [q EXCEPT !.result.mx = FALSE, !.result.status = "invalid", !.at = "done"]

\* Step 3: the SMTP probe in the configured mode; status = ping.
SMTPStep(p, ping) ==
    [p EXCEPT !.calls.smtp = @ + 1, !.result.ping = ping, !.result.status = ping,
              !.at = "done"]

\* verify_single_email after the entry check, given what validate_email,
\* the MX query and the probe do.
verify_single_email(i, v, answer, ping) ==
    LET p1 == FormatStep(PipelineEntry(i), v)
        p2 == IF p1.at = "mx" THEN MXStep(p1, answer) ELSE p1
    IN IF p2.at = "smtp" THEN SMTPStep(p2, ping) ELSE p2

\* Every way verify_single_email can end for address i.
PipelineOutcomes(i) ==
    { verify_single_email(i, v, answer, ping) :
        v \in Validation, answer \in MXQuery,
        ping \in (IF fast_mode THEN FastOutcomes ELSE StandardOutcomes) }

\* A running pipeline executes its stages and its future finishes: with
\* the result dict, or with the exception that left verify_single_email.
PipelineRun(i) ==
    /\ future[i] = "running"
    /\ \E p \in PipelineOutcomes(i) :
          /\ future' = [future EXCEPT ![i] = p.at]
          /\ result' = [result EXCEPT ![i] = p.result]
          /\ calls' = [calls EXCEPT ![i] = p.calls]
          /\ syntax' = [syntax EXCEPT ![i] = p.syntax]
          /\ lookup' = [lookup EXCEPT ![i] = p.lookup]
    /\ UNCHANGED << cancelled, progress, total_emails, bpc, entry, yielded, cur, results >>
    /\ UNCHANGED << cblog, senderVars, probeVars, inputVars, histVars >>

\* Mutant: the loop without its test of self.cancelled.
CollectNext_NoBreak ==
    /\ bpc = "collect"
    /\ IF yielded = Submitted
       THEN /\ bpc' = "shutdown"
            /\ UNCHANGED << yielded, cur >>
       ELSE \E f \in Finished \ yielded :
              /\ yielded' = yielded \cup {f}
              /\ cur' = f
              /\ bpc' = "body"
    /\ UNCHANGED << cancelled, progress, total_emails, future, entry, result, calls,
                    syntax, lookup, results >>
    /\ UNCHANGED << cblog, senderVars, probeVars, inputVars, histVars >>

\* for future in as_completed(...): the next finished future, then the test
\* of self.cancelled (cancel every future, break); the loop ends when every
\* future has been yielded.
CollectNext ==
    /\ bpc = "collect"
    /\ IF yielded = Submitted
       THEN /\ bpc' = "shutdown"
            /\ UNCHANGED << future, yielded, cur, broke >>
       ELSE \E f \in Finished \ yielded :
              /\ yielded' = yielded \cup {f}
              /\ IF cancelled
                 THEN /\ future' = [i \in Addresses |->
                                      IF future[i] = "pending" THEN "cancelled" ELSE future[i]]
                      /\ bpc' = "shutdown"
                      /\ broke' = TRUE
                      /\ UNCHANGED cur
                 ELSE /\ cur' = f
                      /\ bpc' = "body"
                      /\ UNCHANGED << future, broke >>
    /\ UNCHANGED << cancelled, progress, total_emails, entry, result, calls, syntax,
                    lookup, results >>
    /\ UNCHANGED << cblog, senderVars, probeVars, inputVars, cancelAt >>

\* Mutant: the error entry with a status outside the vocabulary.
ExceptBranch_Failed(rs, f) == Append(rs, [ErrorResult(f) EXCEPT !.status = "failed"])

\* Mutant: the except clause swallows the exception and appends nothing.
ExceptBranch_Swallow(rs, f) == rs

\* except Exception: append the error entry of the future's address.
ExceptBranch(rs, f) == Append(rs, ErrorResult(f))

\* if progress_callback: progress_callback(self.progress, self.total_emails)
Notify(log, done, total) ==
    IF callback THEN Append(log, << done, total >>) ELSE log

\* The try block of the loop body: future.result() re-raises what the
\* pipeline raised; otherwise the result is appended and counted and the
\* callback, if any, is called -- and may raise, inside the same try.
CollectResult ==
    /\ bpc = "body"
    /\ IF future[cur] = "raised"
       THEN /\ results' = ExceptBranch(results, cur)
            /\ UNCHANGED << progress, cblog >>
       ELSE /\ progress' = progress + 1
            /\ cblog' = Notify(cblog, progress + 1, total_emails)
            /\ \/ results' = Append(results, result[cur])
               \/ /\ callback
                  /\ results' = ExceptBranch(Append(results, result[cur]), cur)
    /\ bpc' = "collect"
    /\ cur' = 0
    /\ UNCHANGED << cancelled, total_emails, future, entry, result, calls, syntax,
                    lookup, yielded >>
    /\ UNCHANGED << senderVars, probeVars, inputVars, histVars >>

\* Mutant: on leaving the with block the results of the futures that have
\* finished meanwhile are collected too.
BatchReturn_Drain ==
    /\ bpc = "shutdown"
    /\ Running = {}
    /\ \A i \in Submitted : future[i] # "pending"
    /\ bpc' = "returned"
    /\ results' = IF \E i \in Submitted : future[i] = "done" /\ i \notin yielded
                  THEN Append(results,
                              result[CHOOSE i \in Submitted :
                                       future[i] = "done" /\ i \notin yielded])
                  ELSE results
    /\ UNCHANGED << cancelled, progress, total_emails, future, entry, result, calls,
                    syntax, lookup, yielded, cur >>
    /\ UNCHANGED << cblog, senderVars, probeVars, inputVars, histVars >>

\* Mutant: the pool is shut down without waiting for its running pipelines.
BatchReturn_NoWait ==
    /\ bpc = "shutdown"
    /\ \A i \in Submitted : future[i] # "pending"
    /\ bpc' = "returned"
    /\ UNCHANGED << cancelled, progress, total_emails, future, entry, result, calls,
                    syntax, lookup, yielded, cur, results >>
    /\ UNCHANGED << cblog, senderVars, probeVars, inputVars, histVars >>

\* Mutant: leaving the with block waits until every future was collected.
BatchReturn_WaitsForAll ==
    /\ bpc = "shutdown"
    /\ yielded = Submitted
    /\ bpc' = "returned"
    /\ UNCHANGED << cancelled, progress, total_emails, future, entry, result, calls,
                    syntax, lookup, yielded, cur, results >>
    /\ UNCHANGED << cblog, senderVars, probeVars, inputVars, histVars >>

\* Leaving the with block: shutdown(wait=True) returns when no pipeline is
\* running any more; then return results.
BatchReturn ==
    /\ bpc = "shutdown"
    /\ Running = {}
    /\ \A i \in Submitted : future[i] # "pending"
    /\ bpc' = "returned"
    /\ UNCHANGED << cancelled, progress, total_emails, future, entry, result, calls,
                    syntax, lookup, yielded, cur, results >>
    /\ UNCHANGED << cblog, senderVars, probeVars, inputVars, histVars >>

\* get_progress: (self.progress, self.total_emails)
get_progress == << progress, total_emails >>

\* cancel_verification, called from another thread: before the batch is
\* started or while it runs.
CancelVerification ==
    /\ bpc \in {"idle", "collect", "body", "shutdown"}
    /\ cancelled' = TRUE
    /\ cancelAt' = IF bpc = "idle" THEN "precall"
                   ELSE IF cancelAt \in {"prestart", "mid"} THEN cancelAt
                   ELSE IF \A i \in Submitted : future[i] = "pending" THEN "prestart"
                   ELSE "mid"
    /\ UNCHANGED << progress, total_emails, bpc, future, entry, result, calls, syntax,
                    lookup, yielded, cur, results, broke >>
    /\ UNCHANGED << cblog, senderVars, probeVars, inputVars >>

Next ==
    \/ BatchCall
    \/ \E i \in Addresses : PipelineStart(i)
    \/ \E i \in Addresses : PipelineRun(i)
    \/ CollectNext
    \/ CollectResult
    \/ BatchReturn
    \/ CancelVerification

Spec == Init /\ [][Next]_vars

\* The per-file tally of cli_version.py (lines 119-125) and of
\* verification_completed (main_app.py lines 719-726): a dict with the keys
\* total, valid, risky and invalid, indexed by each result's status.  An
\* entry with another status raises KeyError.
RECURSIVE file_stats(_, _)
file_stats(rs, stats) ==
    IF rs = << >> THEN [raised |-> FALSE, stats |-> stats]
    ELSE IF Head(rs).status \notin DOMAIN stats
         THEN [raised |-> TRUE, stats |-> stats]
         ELSE file_stats(Tail(rs),
                         [stats EXCEPT !.total = @ + 1, ![Head(rs).status] = @ + 1])

NewFileStats == [total |-> 0, valid |-> 0, risky |-> 0, invalid |-> 0]

\* The caller of verify_emails_batch handles the list it got: it counts the
\* results per file and then reports and saves them; a KeyError of the
\* tally leaves main through `except Exception` (line 174) before anything
\* is saved.
HandleResults ==
    /\ bpc = "returned"
    /\ bpc' = IF file_stats(results, NewFileStats).raised THEN "tally_raised" ELSE "saved"
    /\ UNCHANGED << cancelled, progress, total_emails, future, entry, result, calls,
                    syntax, lookup, yielded, cur, results >>
    /\ UNCHANGED << cblog, senderVars, probeVars, inputVars, histVars >>

NextCli == Next \/ HandleResults

\* A batch and the handling of its results by the command line or the GUI.
SpecCli == Init /\ [][NextCli]_vars

\* What the threads of a batch are sure to do.  A pool worker that is free
\* takes the next queued future, and a running pipeline ends: validate_email
\* and the MX query are bounded by the resolver's lifetime, the SMTP
\* sessions by timeout=self.timeout (line 72) and timeout=10 (line 117).
\* The collector thread takes its next step when it can.  Nothing obliges
\* anybody to call cancel_verification.  The batches are those of a
\* verifier in fast mode, called without a progress callback: the mode
\* changes what a pipeline returns, not whether it ends, and a callback
\* that returns or raises (caught at line 212) leaves the loop as it is.
InitFair == Init /\ fast_mode = TRUE /\ callback = FALSE

SpecFair ==
    /\ InitFair
    /\ [][Next]_vars
    /\ \A i \in Addresses : WF_vars(PipelineStart(i) \/ PipelineRun(i))
    /\ WF_vars(CollectNext \/ CollectResult \/ BatchReturn)

(***************************************************************************)
(* The probe on its own: every mode, DNS answer and exchanger behaviour    *)
(***************************************************************************)

InitProbe ==
    /\ pMode \in {"fast", "standard"}
    /\ pScn \in Scenarios
    /\ pDone = FALSE
    /\ pOut = ProbeReturn("none", << >>)
    /\ emails = << >>
    /\ max_workers = 1
    /\ fast_mode = (pMode = "fast")
    /\ callback = FALSE
    /\ VerifierIdle
    /\ SenderIdle

ProbeFast ==
    /\ ~pDone
    /\ pMode = "fast"
    /\ pOut' = check_smtp_connection_fast(pScn)
    /\ pDone' = TRUE
    /\ UNCHANGED << pMode, pScn, inputVars, batchVars, histVars, senderVars >>

ProbeStandard ==
    /\ ~pDone
    /\ pMode = "standard"
    /\ pOut' = check_smtp_connection_standard(pScn)
    /\ pDone' = TRUE
    /\ UNCHANGED << pMode, pScn, inputVars, batchVars, histVars, senderVars >>

NextProbe == ProbeFast \/ ProbeStandard

SpecProbe == InitProbe /\ [][NextProbe]_vars

(***************************************************************************)
(* Part 3: EmailSender -- send_bulk_emails, its worker thread and          *)
(* cancel_sending.  One calling thread makes the calls one after another;  *)
(* the worker threads run concurrently with it and with each other.        *)
(***************************************************************************)

verifierVars == << probeVars, inputVars, batchVars, histVars >>

\* Where send_single_email can fail: any exception of the session is caught.
SendFailures == {"none", "connect", "starttls", "login", "send_message", "quit"}

\* send_single_email: 'success' when no call raised, else 'error'.
send_single_email(f) == IF f = "none" THEN "success" ELSE "error"

\* The positions of a worker inside its for loop (lines 193-234).
LoopPositions == {"l194", "l206", "l212", "l213", "l233"}

\* Thread.is_alive(): started and not yet terminated.
is_alive(w) == worker[w].pc \notin {"none", "exited"}

InLoop == { w \in Threads : worker[w].pc \in LoopPositions }

Event(ev, k) == [ev |-> ev, k |-> k]

\* len(emails), summed over the calls accepted so far.
RECURSIVE TargetsUpTo(_)
TargetsUpTo(w) == IF w = 0 THEN 0 ELSE worker[w].n + TargetsUpTo(w - 1)

TargetsSubmitted == TargetsUpTo(MaxCampaigns)

\* Mutant: send_bulk_emails without the test of self.is_sending.
SendBulkEmails_NoGuard ==
    /\ caller = "idle"
    /\ \E w \in Threads, n \in 0..(MaxTargets - TargetsSubmitted) :
          /\ worker[w].pc = "none"
          /\ \A v \in Threads : v < w => worker[v].pc # "none"
          /\ is_sending' = TRUE
          /\ send_cancelled' = FALSE
          /\ campaign_stats' = [InitialStats EXCEPT !.start_time = "set"]
          /\ current_thread' = w
          /\ worker' = [worker EXCEPT ![w] =
                          [NoWorker EXCEPT !.pc = "l194", !.n = n, !.cb = callback]]
          /\ last_return' = "started"
    /\ UNCHANGED caller
    /\ UNCHANGED verifierVars

\* send_bulk_emails: rejected while is_sending; otherwise the fields are
\* reset, the worker thread is created and started, 'started' is returned.
SendBulkEmails ==
    /\ caller = "idle"
    /\ IF is_sending
       THEN /\ last_return' = "error"
            /\ UNCHANGED << is_sending, send_cancelled, campaign_stats, current_thread,
                            worker >>
       ELSE \E w \in Threads, n \in 0..(MaxTargets - TargetsSubmitted) :
              /\ worker[w].pc = "none"
              /\ \A v \in Threads : v < w => worker[v].pc # "none"
              /\ is_sending' = TRUE
              /\ send_cancelled' = FALSE
              /\ campaign_stats' = [InitialStats EXCEPT !.start_time = "set"]
              /\ current_thread' = w
              /\ worker' = [worker EXCEPT ![w] =
                              [NoWorker EXCEPT !.pc = "l194", !.n = n, !.cb = callback]]
              /\ last_return' = "started"
    /\ UNCHANGED caller
    /\ UNCHANGED verifierVars

\* for i, email_data in enumerate(emails): the end of the list, the test of
\* self.cancelled, then the personalisation of the templates (lines 197-203),
\* which may raise into the except clause of line 236.
WorkerLoopHead(w) ==
    /\ worker[w].pc = "l194"
    /\ IF worker[w].i = worker[w].n
       THEN worker' = [worker EXCEPT ![w].pc = "l240", ![w].why = "done"]
       ELSE IF send_cancelled
       THEN worker' = [worker EXCEPT ![w].pc = "l240", ![w].why = "cancelled"]
       ELSE \/ worker' = [worker EXCEPT ![w].pc = "l206"]
            \/ worker' = [worker EXCEPT ![w].pc = "l240", ![w].why = "exception"]
    /\ UNCHANGED << is_sending, send_cancelled, campaign_stats, current_thread,
                    caller, last_return >>
    /\ UNCHANGED verifierVars

\* Mutant: the callback is called as soon as the send returns, before the
\* statistics are updated, and again after them.
WorkerSend_CallbackEarly(w) ==
    /\ worker[w].pc = "l206"
    /\ \E f \in SendFailures :
          worker' = [worker EXCEPT
                       ![w].pc = "l212",
                       ![w].status = send_single_email(f),
                       ![w].log = IF worker[w].cb
                                  THEN @ \o << Event("send", worker[w].i + 1),
                                               Event("callback", worker[w].i + 1) >>
                                  ELSE Append(@, Event("send", worker[w].i + 1))]
    /\ UNCHANGED << is_sending, send_cancelled, campaign_stats, current_thread,
                    caller, last_return >>
    /\ UNCHANGED verifierVars

\* result = self.send_single_email(...)
WorkerSend(w) ==
    /\ worker[w].pc = "l206"
    /\ \E f \in SendFailures :
          worker' = [worker EXCEPT ![w].pc = "l212",
                                   ![w].status = send_single_email(f),
                                   ![w].log = Append(@, Event("send", worker[w].i + 1))]
    /\ UNCHANGED << is_sending, send_cancelled, campaign_stats, current_thread,
                    caller, last_return >>
    /\ UNCHANGED verifierVars

\* self.campaign_stats['total_sent'] += 1
WorkerCount(w) ==
    /\ worker[w].pc = "l212"
    /\ campaign_stats' = [campaign_stats EXCEPT !.total_sent = @ + 1]
    /\ worker' = [worker EXCEPT ![w].pc = "l213",
                                ![w].log = Append(@, Event("counted", worker[w].i + 1))]
    /\ UNCHANGED << is_sending, send_cancelled, current_thread, caller, last_return >>
    /\ UNCHANGED verifierVars

\* Mutant: an exception of the callback ends the thread at once, without
\* the finally clause.
WorkerRecord_NoFinally(w) ==
    /\ worker[w].pc = "l213"
    /\ campaign_stats' =
          IF worker[w].status = "success"
          THEN [campaign_stats EXCEPT !.successful = @ + 1]
          ELSE [campaign_stats EXCEPT !.failed = @ + 1]
    /\ IF worker[w].cb
       THEN \/ worker' = [worker EXCEPT ![w].pc = "l233", ![w].status = "none",
                                        ![w].log = Append(@, Event("callback", worker[w].i + 1))]
            \/ worker' = [worker EXCEPT ![w] =
                             Terminated([worker[w] EXCEPT !.why = "exception"])]
       ELSE worker' = [worker EXCEPT ![w].pc = "l233", ![w].status = "none"]
    /\ UNCHANGED << is_sending, send_cancelled, current_thread, caller, last_return >>
    /\ UNCHANGED verifierVars

\* Lines 213-230: successful or failed is counted, the result is stored,
\* the progress callback, if any, is called with (progress, i + 1,
\* len(emails), result) -- and may raise into the except clause of line 236.
WorkerRecord(w) ==
    /\ worker[w].pc = "l213"
    /\ campaign_stats' =
          IF worker[w].status = "success"
          THEN [campaign_stats EXCEPT !.successful = @ + 1]
          ELSE [campaign_stats EXCEPT !.failed = @ + 1]
    /\ IF worker[w].cb
       THEN \/ worker' = [worker EXCEPT ![w].pc = "l233", ![w].status = "none",
                                        ![w].log = Append(@, Event("callback", worker[w].i + 1))]
            \/ worker' = [worker EXCEPT ![w].pc = "l240", ![w].why = "exception",
                                        ![w].status = "none",
                                        ![w].log = Append(@, Event("callback", worker[w].i + 1))]
       ELSE worker' = [worker EXCEPT ![w].pc = "l233", ![w].status = "none"]
    /\ UNCHANGED << is_sending, send_cancelled, current_thread, caller, last_return >>
    /\ UNCHANGED verifierVars

\* Mutant: the delay is slept after the last target too.
WorkerDelay_AfterLast(w) ==
    /\ worker[w].pc = "l233"
    /\ worker' = [worker EXCEPT ![w].pc = "l194", ![w].i = @ + 1,
                                ![w].log = Append(@, Event("sleep", worker[w].i + 1))]
    /\ UNCHANGED << is_sending, send_cancelled, campaign_stats, current_thread,
                    caller, last_return >>
    /\ UNCHANGED verifierVars

\* if i < len(emails) - 1: time.sleep(self.delay_between); then the next
\* iteration.
WorkerDelay(w) ==
    /\ worker[w].pc = "l233"
    /\ worker' = [worker EXCEPT
                    ![w].pc = "l194", ![w].i = @ + 1,
                    ![w].log = IF worker[w].i < worker[w].n - 1
                               THEN Append(@, Event("sleep", worker[w].i + 1))
                               ELSE @]
    /\ UNCHANGED << is_sending, send_cancelled, campaign_stats, current_thread,
                    caller, last_return >>
    /\ UNCHANGED verifierVars

\* finally: end_time is stamped, self.is_sending = False, then the
\* callback, if any, with (100, len(emails), len(emails), {'status':
\* 'completed'}); the thread ends (with the callback's exception if it
\* raises) and its locals are gone.
WorkerFinish(w) ==
    /\ worker[w].pc = "l240"
    /\ campaign_stats' = [campaign_stats EXCEPT !.end_time = "set"]
    /\ is_sending' = FALSE
    /\ worker' = [worker EXCEPT ![w] = Terminated(worker[w])]
    /\ UNCHANGED << send_cancelled, current_thread, caller, last_return >>
    /\ UNCHANGED verifierVars

\* cancel_sending: the flag is set; with a live current thread the caller
\* waits in join(timeout=5), otherwise is_sending is cleared at once.
CancelSending ==
    /\ caller = "idle"
    /\ send_cancelled' = TRUE
    /\ IF current_thread # 0 /\ is_alive(current_thread)
       THEN /\ caller' = "join"
            /\ worker' = [worker EXCEPT ![current_thread].flagged = TRUE]
            /\ UNCHANGED is_sending
       ELSE /\ is_sending' = FALSE
            /\ UNCHANGED << caller, worker >>
    /\ UNCHANGED << campaign_stats, current_thread, last_return >>
    /\ UNCHANGED verifierVars

\* join returns -- the thread has ended, or the 5 seconds have passed with
\* the thread still alive -- and self.is_sending = False.
JoinReturn ==
    /\ caller = "join"
    /\ caller' = "idle"
    /\ is_sending' = FALSE
    /\ UNCHANGED << send_cancelled, campaign_stats, current_thread, last_return, worker >>
    /\ UNCHANGED verifierVars

InitSender ==
    /\ ProbeIdle
    /\ emails = << >>
    /\ max_workers = 1
    /\ fast_mode = TRUE
    /\ callback \in BOOLEAN
    /\ VerifierIdle
    /\ SenderIdle

NextSender ==
    \/ SendBulkEmails
    \/ \E w \in Threads : WorkerLoopHead(w)
    \/ \E w \in Threads : WorkerSend(w)
    \/ \E w \in Threads : WorkerCount(w)
    \/ \E w \in Threads : WorkerRecord(w)
    \/ \E w \in Threads : WorkerDelay(w)
    \/ \E w \in Threads : WorkerFinish(w)
    \/ CancelSending
    \/ JoinReturn

SpecSender == InitSender /\ [][NextSender]_vars

\* Where test_connection can fail: the calls of lines 60-70.
TestFailures == {"none", "connect", "starttls", "login", "quit"}

\* Mutant: test_connection lets a failed login propagate.
test_connection_LoginRaises(f) ==
    IF f = "none" THEN "success" ELSE IF f = "login" THEN "raised" ELSE "error"

\* test_connection: the status of the dict it returns -- 'success', or
\* 'error' from except Exception.
test_connection(f) == IF f = "none" THEN "success" ELSE "error"

\* The caller calls test_connection, which fails at one of its calls or
\* not at all.
TestConnection ==
    /\ caller = "idle"
    /\ \E ret \in { test_connection(f) : f \in TestFailures } : last_return' = ret
    /\ UNCHANGED << is_sending, send_cancelled, campaign_stats, current_thread,
                    caller, worker >>
    /\ UNCHANGED verifierVars

\* The caller calls send_single_email itself, outside any campaign.
SendSingleEmail ==
    /\ caller = "idle"
    /\ \E ret \in { send_single_email(f) : f \in SendFailures } : last_return' = ret
    /\ UNCHANGED << is_sending, send_cancelled, campaign_stats, current_thread,
                    caller, worker >>
    /\ UNCHANGED verifierVars

NextCalls == NextSender \/ TestConnection \/ SendSingleEmail

\* The campaigns are started without a progress callback.
InitCalls == InitSender /\ callback = FALSE

\* The dispatcher with every public operation: the campaigns of SpecSender
\* and, between and during them, the caller's direct calls of
\* test_connection and send_single_email.
SpecCalls == InitCalls /\ [][NextCalls]_vars

\* get_campaign_stats: a copy of campaign_stats, with the duration once
\* start_time is set.
get_campaign_stats ==
    IF campaign_stats.start_time = "None" THEN campaign_stats
    ELSE [key \in DOMAIN campaign_stats \cup {"duration"} |->
            IF key = "duration" THEN "set" ELSE campaign_stats[key]]

\* get_status (the config entry, fixed at construction, is constant).
get_status ==
    [is_sending |-> is_sending, cancelled |-> send_cancelled,
     campaign_stats |-> get_campaign_stats, config |-> "config"]

\* What the threads are sure to do.  A worker whose step is enabled takes
\* it -- personalisation, counting, the delay and the finally clause are
\* finite computations -- except the send: smtplib.SMTP(server, port) is
\* built without a timeout, so connect and every later read block for as
\* long as the server stays silent.  join(timeout=5) returns.
SpecSenderFair ==
    /\ SpecSender
    /\ \A w \in Threads :
          WF_vars(WorkerLoopHead(w) \/ WorkerCount(w) \/ WorkerRecord(w)
                    \/ WorkerDelay(w) \/ WorkerFinish(w))
    /\ WF_vars(JoinReturn)

(***************************************************************************)
(* Claims about the probe (checked under SpecProbe)                        *)
(***************************************************************************)

\* The sessions in which the exchanger answered RCPT TO (rcpt returned).
RcptAnswered(s) == s.code # 0

\* An exception that is no explicit refusal of the recipient.
NonRefusal(x) ==
    /\ x # NoExc
    /\ x.cls # "SMTPRecipientsRefused"
    /\ ~(x.cls = "SMTPResponseException" /\ x.smtp_code = 550)

LastSession == pOut.sessions[Len(pOut.sessions)]

\* C3 (as claimed): in both modes, when an exchanger the probe contacted
\* answers RCPT TO with 250 the probe returns "valid", with 550 "invalid",
\* with any other code "risky".
C3_RcptCodeDecides ==
    pDone =>
      \A k \in 1..Len(pOut.sessions) :
        LET s == pOut.sessions[k] IN
        RcptAnswered(s) =>
          /\ (s.code = 250 => pOut.result = "valid")
          /\ (s.code = 550 => pOut.result = "invalid")
          /\ (s.code \notin {250, 550} => pOut.result = "risky")

\* C4 (as claimed): in both modes every exception raised during the probe
\* (by its MX query or by an SMTP session) that is no explicit refusal makes
\* the probe return "risky".
C4_EveryExceptionRisky ==
    ( /\ pDone
      /\ \/ pScn.dnsRaises
         \/ \E k \in 1..Len(pOut.sessions) : NonRefusal(pOut.sessions[k].exc) )
    => pOut.result = "risky"

\* C4 (amended): no exception leaves the probe; a non-refusal exception in
\* the last session the probe attempts gives "risky"; an exception of the
\* probe's MX query gives "risky" in standard mode and "invalid" in fast mode.
C4_FailSoft ==
    pDone =>
      /\ pOut.result \in {"valid", "invalid", "risky"}
      /\ ((pScn.dnsRaises /\ pMode = "standard") => pOut.result = "risky")
      /\ ((pScn.dnsRaises /\ pMode = "fast") => pOut.result = "invalid")
      /\ ((pOut.sessions # << >> /\ NonRefusal(LastSession.exc))
            => pOut.result = "risky")

\* C4 witness: a standard probe whose two attempts both end in a connection
\* error and which returns "risky".
C4_Witness ==
    /\ pDone
    /\ pMode = "standard"
    /\ Len(pOut.sessions) = 2
    /\ \A k \in 1..2 : pOut.sessions[k].exc.cls = "OSError"
    /\ pOut.result = "risky"

(***************************************************************************)
(* Claims about the pipeline and the batch (checked under Spec)            *)
(***************************************************************************)

Returned == bpc = "returned"

\* The positions of the result list that hold an entry for address i.
EntriesOf(i) == { k \in 1..Len(results) : results[k].email = i }

IsPrefix(s, r) == Len(s) <= Len(r) /\ \A k \in 1..Len(s) : s[k] = r[k]

NoNetworkCalls(i) == calls[i].dns = 0 /\ calls[i].smtp = 0

\* C1: an address that fails the syntax check gets status "invalid" with
\* format and mx false, and neither an MX lookup nor an SMTP probe is made
\* for it.
C1_BadSyntaxStops ==
    \A i \in Submitted :
      syntax[i] = "bad" =>
        /\ future[i] = "done"
        /\ result[i].status = "invalid"
        /\ result[i].format = FALSE
        /\ result[i].mx = FALSE
        /\ NoNetworkCalls(i)

C1_Witness ==
    \E i \in Submitted :
      syntax[i] = "bad" /\ calls[i].format = 1 /\ result[i].status = "invalid"

\* C2: unless the MX lookup of its domain gave records -- it gave none, it
\* failed, or it was not made because the syntax is invalid -- a pipeline
\* that ran returns status "invalid" with mx false and starts no SMTP probe.
C2_NoMXStops ==
    \A i \in Submitted :
      (future[i] = "done" /\ entry[i] = "clear" /\ lookup[i] # "records") =>
        /\ result[i].status = "invalid"
        /\ result[i].mx = FALSE
        /\ calls[i].smtp = 0

C2_Witness ==
    \E i \in Submitted :
      /\ syntax[i] = "ok"
      /\ lookup[i] = "none"
      /\ future[i] = "done"
      /\ result[i].format = TRUE
      /\ result[i].status = "invalid"

\* C5: a pipeline that raised does not make the batch raise, and in the
\* list the batch returns -- its collector not having been stopped by a
\* cancellation request -- that address has exactly one entry, the error
\* entry (status and ping "error", format and mx false), and every other
\* address has the result of its own pipeline.
C5_FailureIsolation ==
    (\E i \in Submitted : future[i] = "raised") =>
      /\ bpc # "raised"
      /\ (Returned /\ ~broke) =>
           \A i \in Submitted :
             IF future[i] = "raised"
             THEN /\ Cardinality(EntriesOf(i)) = 1
                  /\ \A k \in EntriesOf(i) :
                       /\ results[k].status = "error"
                       /\ results[k].ping = "error"
                       /\ results[k].format = FALSE
                       /\ results[k].mx = FALSE
             ELSE \E k \in EntriesOf(i) : results[k] = result[i]

C5_Witness ==
    /\ Returned
    /\ ~broke
    /\ Len(emails) = 2
    /\ future[1] = "raised"
    /\ future[2] = "done"
    /\ Len(results) = 2

\* C6 (as claimed): at every point of a batch the result list holds at most
\* len(addresses) entries and no address has more than one entry.
C6_AtMostOneEntry ==
    /\ Len(results) <= Len(emails)
    /\ \A i \in Submitted : Cardinality(EntriesOf(i)) <= 1

\* C7 (as claimed): a non-empty batch in which cancellation is never
\* requested returns exactly one result for every submitted address.
C7_CompleteWithoutCancel ==
    (Returned /\ cancelAt = "never" /\ Len(emails) >= 1) =>
      /\ Len(results) = Len(emails)
      /\ \A i \in Submitted : Cardinality(EntriesOf(i)) = 1

\* C8: a pipeline that reads the cancellation flag set on entry returns at
\* once the cancelled result (status and ping "cancelled", format and mx
\* false) and makes no syntax check, no DNS lookup and no SMTP connection.
C8_CancelledAtEntry ==
    \A i \in Submitted :
      entry[i] = "set" =>
        /\ future[i] = "done"
        /\ result[i].status = "cancelled"
        /\ result[i].ping = "cancelled"
        /\ result[i].format = FALSE
        /\ result[i].mx = FALSE
        /\ calls[i] = NoCalls

C8_Witness ==
    \E i \in Submitted : entry[i] = "set" /\ result[i].status = "cancelled"

\* C9 (as claimed): a cancel_verification call before any pipeline of the
\* batch starts -- before verify_emails_batch is called or after -- gives a
\* returned list whose entries all have status "cancelled", and no DNS or
\* SMTP call is made for the batch.
C9_CancelBeforeStart ==
    (Returned /\ cancelAt \in {"precall", "prestart"}) =>
      /\ \A k \in 1..Len(results) : results[k].status = "cancelled"
      /\ \A i \in Submitted : NoNetworkCalls(i)

\* C9 (amended): a cancel_verification call made after verify_emails_batch
\* has reset the flag and before any pipeline starts: every pipeline that
\* runs yields "cancelled", no DNS or SMTP call is made, and the returned
\* list is empty, the collector leaving its loop at the first future.
C9_CancelInBatchBeforeStart ==
    (Returned /\ cancelAt = "prestart") =>
      /\ results = << >>
      /\ \A i \in Submitted :
           /\ NoNetworkCalls(i)
           /\ future[i] \in {"done", "cancelled"}
           /\ future[i] = "done" => result[i].status = "cancelled"

C9_Witness ==
    /\ Returned
    /\ cancelAt = "prestart"
    /\ Len(emails) = 2
    /\ \E i \in Submitted : entry[i] = "set"

\* C10 (as claimed): after a cancellation requested mid-batch the returned
\* list has one result for every address whose pipeline finished, those
\* that finished after the request or yielded "cancelled" included.
C10_EveryFinishedPipelineListed ==
    (Returned /\ cancelAt = "mid") =>
      \A i \in Submitted :
        future[i] \in {"done", "raised"} => Cardinality(EntriesOf(i)) = 1

\* C10 (amended): the list only grows during a batch, it no longer changes
\* once the collector has seen the flag, and it never holds a "cancelled"
\* entry: what is returned is what had been collected when the collector
\* first saw the flag; results of pipelines finishing later are dropped.
C10_FrozenWhenFlagSeen ==
    [][ /\ bpc # "idle" => IsPrefix(results, results')
        /\ broke => results' = results
        /\ \A k \in 1..Len(results') : results'[k].status # "cancelled" ]_vars

C10_Witness ==
    /\ Returned
    /\ broke
    /\ cancelAt = "mid"
    /\ Len(results) = 1
    /\ \E i \in Submitted : future[i] = "done" /\ EntriesOf(i) = {}

\* C11: a pipeline that has passed its entry check is never cancelled or cut
\* short, whatever the flag says: in every step it either stays running or
\* finishes as verify_single_email finishes (its stages run to their end);
\* and when verify_emails_batch returns no pipeline is running.
C11_StartedPipelinesFinish ==
    [][ /\ \A i \in Addresses :
            future[i] = "running" =>
              \/ future'[i] = "running" /\ result'[i] = result[i]
              \/ \E p \in PipelineOutcomes(i) :
                    /\ future'[i] = p.at
                    /\ result'[i] = p.result
                    /\ calls'[i] = p.calls
        /\ (bpc' = "returned" => \A i \in Addresses : future'[i] # "running")
      ]_vars

\* C11 witness: the collector has seen the flag and left its loop while a
\* pipeline that passed its entry check is still running.
C11_Witness ==
    /\ bpc = "shutdown"
    /\ broke
    /\ cancelled
    /\ \E i \in Submitted : future[i] = "running" /\ entry[i] = "clear"

\* C12: at no time are more than min(max_workers, len(emails), 50)
\* pipelines executing.
C12_PoolBound ==
    /\ Cardinality(Running) <= max_workers
    /\ Cardinality(Running) <= Len(emails)
    /\ Cardinality(Running) <= HardCap

\* C12 witness: the bound is reached and a submitted pipeline waits for a
\* free worker.
C12_Witness ==
    /\ Cardinality(Running) = max_workers
    /\ max_workers < Len(emails)
    /\ \E i \in Submitted : future[i] = "pending"

\* C13 (as claimed): in a batch with a progress callback the callback has
\* been called once for every future the collector has handled, normal or
\* error result, with done = 1, 2, 3, ... and total = the batch size; when a
\* batch that was not cancelled returns, the last call was (n, n) and
\* get_progress gives (n, n).
C13_CallbackPerCompletedPipeline ==
    callback =>
      /\ (bpc = "collect" /\ ~broke =>
            cblog = [k \in 1..Cardinality(yielded) |-> << k, Len(emails) >>])
      /\ (bpc = "returned" /\ ~cancelled =>
            /\ cblog = [k \in 1..Len(emails) |-> << k, Len(emails) >>]
            /\ get_progress = << Len(emails), Len(emails) >>)
(***************************************************************************)
(* Claims about the sender (checked under SpecSender)                      *)
(***************************************************************************)

\* C14 (as claimed): a dispatcher never has two worker threads inside the
\* send loop at the same time.
C14_OneWorkerInLoop == Cardinality(InLoop) <= 1

\* C15: while is_sending is true no step creates a worker thread or changes
\* current_thread, and a call of send_bulk_emails returns the error result
\* and leaves campaign_stats, cancelled, is_sending, current_thread and the
\* threads as they were.
C15_BusyRejected ==
    [][ is_sending =>
          /\ \A w \in Threads : worker[w].pc = "none" => worker'[w].pc = "none"
          /\ current_thread' = current_thread
          /\ (last_return' # last_return =>
                /\ last_return' = "error"
                /\ UNCHANGED << campaign_stats, send_cancelled, is_sending,
                                current_thread, worker, caller >>)
      ]_vars

\* C15 witness: a call was rejected while a worker is in its loop.
C15_Witness ==
    /\ last_return = "error"
    /\ is_sending
    /\ InLoop # {}

\* The loop of worker w has ended and the finally clause is about to run.
AtCompletion(w) == worker[w].pc = "l240"

\* C16 (as claimed): when the loop of a campaign that was not cancelled has
\* ended, every target has been attempted once and counted: total_sent is
\* the number of targets, each counted as successful or failed.
C16_EveryTargetAttempted ==
    \A w \in Threads :
      (AtCompletion(w) /\ ~worker[w].flagged) =>
        /\ worker[w].i = worker[w].n
        /\ campaign_stats.total_sent = worker[w].n
        /\ campaign_stats.successful + campaign_stats.failed = worker[w].n

\* C17 (as claimed): when the campaigns have ended -- every thread started
\* has terminated -- total_sent = successful + failed.
C17_SentIsSuccessfulPlusFailed ==
    ( /\ current_thread # 0
      /\ \A w \in Threads : ~is_alive(w) )
    => campaign_stats.total_sent = campaign_stats.successful + campaign_stats.failed

\* C18 (as claimed): once cancel_sending has been called during a worker's
\* campaign, that worker begins no further target (the send in flight at
\* the call may complete), and no counter decreases as long as it runs.
C18_NoTargetAfterCancel ==
    [][ \A w \in Threads :
          worker[w].flagged =>
            /\ ~(worker[w].pc = "l194" /\ worker'[w].pc = "l206")
            /\ campaign_stats'.total_sent >= campaign_stats.total_sent
            /\ campaign_stats'.successful >= campaign_stats.successful
            /\ campaign_stats'.failed >= campaign_stats.failed
      ]_vars

\* C19: a worker thread ends only through its finally clause, whatever
\* made it leave the loop: the step in which it terminates stamps
\* campaign_stats.end_time and sets is_sending to false.
C19_FinallyOnEveryExit ==
    [][ \A w \in Threads :
          (is_alive(w) /\ worker'[w].pc = "exited") =>
            /\ worker[w].pc = "l240"
            /\ worker[w].why \in {"done", "cancelled", "exception"}
            /\ campaign_stats'.end_time = "set"
            /\ is_sending' = FALSE
      ]_vars

\* C19 witness: two workers have terminated, one whose loop was stopped by
\* the flag and one whose loop raised; end_time is stamped and is_sending
\* is false.
C19_Witness ==
    /\ \E w \in Threads : worker[w].pc = "exited" /\ worker[w].why = "cancelled"
    /\ \E w \in Threads : worker[w].pc = "exited" /\ worker[w].why = "exception"
    /\ campaign_stats.end_time = "set"
    /\ ~is_sending

\* What a worker has done so far, sends and sleeps only.
SendsAndSleeps(w) ==
    SelectSeq(worker[w].log, LAMBDA e : e.ev \in {"send", "sleep"})

\* C20: in every worker the sends and sleeps alternate, beginning with the
\* send for target 1: the send for target i+1 comes right after the sleep
\* that followed the send for target i, and no sleep follows the send for
\* the last target of the list.
C20_SleepBetweenSends ==
    \A w \in Threads :
      LET L == SendsAndSleeps(w) IN
      \A k \in 1..Len(L) :
        /\ (k % 2 = 1 => L[k] = Event("send", (k + 1) \div 2))
        /\ (k % 2 = 0 => L[k] = Event("sleep", k \div 2) /\ k \div 2 < worker[w].n)

\* C20 witness: a worker has sent to both targets of its list, with the
\* sleep in between, and has left its loop.
C20_Witness ==
    \E w \in Threads :
      /\ AtCompletion(w)
      /\ worker[w].why = "done"
      /\ SendsAndSleeps(w) = << Event("send", 1), Event("sleep", 1), Event("send", 2) >>
\* What a worker has done so far, sleeps left out.
WithoutSleeps(w) ==
    SelectSeq(worker[w].log, LAMBDA e : e.ev # "sleep")

\* The events of a given kind in what a worker has done so far.
EventsOf(w, ev) ==
    SelectSeq(worker[w].log, LAMBDA e : e.ev = ev)

\* C21: in every worker the sends are for targets 1, 2, 3, ... in that
\* order, each begun only after the target before it has been counted (one
\* send at a time); the callbacks are for targets 1, 2, ..., k in that
\* order, and each callback comes right after its target's send has
\* returned and the statistics have been updated for it.
C21_CallbacksInOrder ==
    \A w \in Threads :
      LET L == WithoutSleeps(w)
          S == EventsOf(w, "send")
          P == EventsOf(w, "callback")
      IN /\ \A j \in 1..Len(S) : S[j].k = j
         /\ \A j \in 1..Len(P) : P[j].k = j
         /\ \A p \in 1..Len(L) :
              /\ (L[p].ev = "send" /\ p > 1 =>
                    L[p-1] \in {Event("counted", L[p].k - 1), Event("callback", L[p].k - 1)})
              /\ (L[p].ev = "counted" => p > 1 /\ L[p-1] = Event("send", L[p].k))
              /\ (L[p].ev = "callback" => p > 2 /\ L[p-1] = Event("counted", L[p].k)
                                                /\ L[p-2] = Event("send", L[p].k))

\* C21 witness: a worker has called the callback for target 1 and then for
\* target 2.
C21_Witness ==
    \E w \in Threads :
      EventsOf(w, "callback") = << Event("callback", 1), Event("callback", 2) >>
\* C22 (as claimed): while a batch runs the verifier's flag, once set, stays
\* set; and the sender's flag, once set by cancel_sending during a campaign,
\* stays set as long as the worker of that campaign is alive.
C22_FlagMonotonic ==
    [][ /\ ((bpc \in {"collect", "body", "shutdown"} /\ cancelled) => cancelled')
        /\ ((send_cancelled /\ \E w \in Threads : worker[w].flagged /\ is_alive(w))
              => send_cancelled')
      ]_vars
(***************************************************************************)
(* Further claims about the probe (checked under SpecProbe)                *)
(***************************************************************************)

\* The preference of exchanger e in the answer of the probe's MX query.
PreferenceOf(e) ==
    (CHOOSE r \in { pScn.answer[k] : k \in 1..Len(pScn.answer) } : r.exchange = e).preference

Contacted == { pOut.sessions[k].exchange : k \in 1..Len(pOut.sessions) }

NotContacted ==
    { pScn.answer[k].exchange : k \in 1..Len(pScn.answer) } \ Contacted

\* The session ended in an exception only `except Exception` catches.
EndedWithoutClassification(s) ==
    s.exc # NoExc /\ s.exc.cls \notin {"SMTPRecipientsRefused", "SMTPResponseException"}

\* C23: a fast probe opens at most one session, a standard probe at most
\* two; the exchangers contacted are contacted in ascending preference and
\* none left out has a lower preference than one contacted; a standard
\* probe opens its second session only when the first ended without a
\* classification.
C23_ExchangersContacted ==
    pDone =>
      LET ss == pOut.sessions IN
      /\ Len(ss) <= (IF pMode = "fast" THEN 1 ELSE 2)
      /\ Cardinality(Contacted) = Len(ss)
      /\ \A e \in Contacted : \A x \in NotContacted : PreferenceOf(e) <= PreferenceOf(x)
      /\ (Len(ss) = 2 =>
            /\ PreferenceOf(ss[1].exchange) <= PreferenceOf(ss[2].exchange)
            /\ EndedWithoutClassification(ss[1]))

\* C23 witness: a standard probe of a domain with three exchangers, listed
\* out of order, has opened two sessions.
C23_Witness ==
    /\ pDone
    /\ pMode = "standard"
    /\ pScn.answer = << MX(30, "mxC"), MX(20, "mxB"), MX(10, "mxA") >>
    /\ Len(pOut.sessions) = 2

\* The calls a session of the mode makes when nothing raises.
CallsOf(mode) ==
    IF mode = "fast" THEN << "connect", "helo", "rcpt", "quit" >>
    ELSE << "connect", "starttls", "helo", "mail", "rcpt", "quit" >>

Issued(s, call) == \E k \in 1..Len(s.commands) : s.commands[k] = call

\* C24 (as claimed): every session makes the calls of its mode in their
\* order, up to the one that raises -- a fast session never MAIL FROM or
\* STARTTLS -- and a standard session sends RCPT TO only after MAIL FROM has
\* been accepted.
C24_RcptAfterMailAccepted ==
    pDone =>
      \A k \in 1..Len(pOut.sessions) :
        LET s == pOut.sessions[k] IN
        /\ s.commands = Prefix(CallsOf(pMode), Len(s.commands))
        /\ (pMode = "standard" /\ Issued(s, "rcpt") => s.mail = 250)

\* C24 (amended): every session makes the calls of its mode in their order,
\* up to the one that raises; a standard session sends RCPT TO only after
\* mail() has returned, whatever the reply to MAIL FROM was.
C24_FixedSequence ==
    pDone =>
      \A k \in 1..Len(pOut.sessions) :
        LET s == pOut.sessions[k] IN
        /\ s.commands = Prefix(CallsOf(pMode), Len(s.commands))
        /\ Len(s.commands) >= 1
        /\ (pMode = "fast" => ~Issued(s, "mail") /\ ~Issued(s, "starttls"))
        /\ (pMode = "standard" /\ Issued(s, "rcpt") => s.mail \in MailCodes)

\* C24 witness: a standard session in which MAIL FROM was rejected and RCPT
\* TO was sent all the same.
C24_Witness ==
    /\ pDone
    /\ pMode = "standard"
    /\ \E k \in 1..Len(pOut.sessions) :
          /\ pOut.sessions[k].mail = 550
          /\ Issued(pOut.sessions[k], "rcpt")

\* The exchangers a standard probe may try: the answer's first two.
Attempts == IF Len(pScn.answer) < 2 THEN Len(pScn.answer) ELSE 2

\* C25 (as claimed): in standard mode a non-refusal exception on the first
\* exchanger makes the probe go on to the second, and the probe returns
\* "risky" only when all its attempts ended without a classification.
C25_ContinueOnAnyException ==
    (pDone /\ pMode = "standard" /\ ~pScn.dnsRaises /\ pOut.sessions # << >>) =>
      /\ (NonRefusal(pOut.sessions[1].exc) /\ Attempts = 2 => Len(pOut.sessions) = 2)
      /\ (pOut.result = "risky" =>
            /\ Len(pOut.sessions) = Attempts
            /\ \A k \in 1..Len(pOut.sessions) : NonRefusal(pOut.sessions[k].exc))

\* C25 (amended): in standard mode the probe goes on to the second
\* exchanger when the attempt on the first raised an exception that is no
\* SMTP response exception and no refusal; an SMTP response exception with a
\* code other than 550, or a reply to RCPT TO other than 250 and 550, makes
\* it return "risky" at once; otherwise it returns "risky" when all its
\* attempts ended without a classification.
C25_ContinueOnOtherErrors ==
    (pDone /\ pMode = "standard" /\ ~pScn.dnsRaises /\ pOut.sessions # << >>) =>
      LET ss == pOut.sessions
          last == ss[Len(ss)]
      IN /\ (EndedWithoutClassification(ss[1]) /\ Attempts = 2 => Len(ss) = 2)
         /\ (ss[1].exc.cls = "SMTPResponseException" /\ ss[1].exc.smtp_code # 550 =>
               Len(ss) = 1 /\ pOut.result = "risky")
         /\ (pOut.result = "risky" =>
               \/ last.exc.cls = "SMTPResponseException" /\ last.exc.smtp_code # 550
               \/ last.exc = NoExc /\ last.code \notin {250, 550}
               \/ /\ Len(ss) = Attempts
                  /\ \A k \in 1..Len(ss) : EndedWithoutClassification(ss[k]))

\* C25 witness: the first exchanger could not be reached, the second
\* answered RCPT TO and decided.
C25_Witness ==
    /\ pDone
    /\ pMode = "standard"
    /\ Len(pOut.sessions) = 2
    /\ EndedWithoutClassification(pOut.sessions[1])
    /\ pOut.sessions[2].exc = NoExc
    /\ pOut.result = "valid"
(***************************************************************************)
(* Further claims about the dispatcher (checked under SpecSender and       *)
(* SpecSenderFair)                                                         *)
(***************************************************************************)

\* C26 (as claimed): once a campaign that attempted a target has ended, what
\* the dispatcher hands to its caller -- get_status, get_campaign_stats --
\* holds the list of the outcomes.
C26_OutcomesExposed ==
    \A w \in Threads :
      (worker[w].pc = "exited" /\ campaign_stats.total_sent > 0) =>
        \/ "results" \in DOMAIN get_status
        \/ "results" \in DOMAIN get_campaign_stats

\* C28 (as claimed): an exception of the personalisation or of the progress
\* callback for one target does not end the loop while targets remain: a
\* loop left through the except clause was at its last target.
C28_ExceptionStaysLocal ==
    \A w \in Threads :
      (AtCompletion(w) /\ worker[w].why = "exception") =>
        worker[w].i + 1 >= worker[w].n

\* C29 (as claimed): a worker whose campaign cancel_sending was called on
\* eventually terminates.
C29_CancelledWorkerTerminates ==
    \A w \in Threads :
      (is_alive(w) /\ worker[w].flagged) ~> (worker[w].pc = "exited")

(***************************************************************************)
(* Further claims about the batch (checked under Spec)                     *)
(***************************************************************************)

\* C27 (as claimed): an exception of validate_email makes the format check
\* return false: the pipeline ends with a result whose format is false and
\* whose status is "invalid", and its future raises nothing.
C27_FormatCheckNeverRaises ==
    \A i \in Submitted :
      syntax[i] = "raise" =>
        /\ future[i] = "done"
        /\ result[i].format = FALSE
        /\ result[i].status = "invalid"

StatusVocabulary == {"valid", "invalid", "risky", "cancelled", "error"}

WellFormedResult(r) ==
    /\ DOMAIN r = {"email", "format", "mx", "ping", "status"}
    /\ r.status \in StatusVocabulary
    /\ r.ping \in StatusVocabulary
    /\ r.format \in BOOLEAN
    /\ r.mx \in BOOLEAN

\* C30: every result a pipeline returned and every entry of the list of the
\* batch has the fields email, format, mx, ping and status, with status and
\* ping among valid, invalid, risky, cancelled and error.
C30_StatusVocabulary ==
    /\ \A i \in Submitted : future[i] = "done" => WellFormedResult(result[i])
    /\ \A k \in 1..Len(results) : WellFormedResult(results[k])

\* C30 witness: the list holds an error entry and a probed result, and a
\* pipeline has returned the cancelled result.
C30_Witness ==
    /\ \E k \in 1..Len(results) : results[k].status = "error"
    /\ \E k \in 1..Len(results) : results[k].status = "risky"
    /\ \E i \in Submitted : future[i] = "done" /\ result[i].status = "cancelled"
\* C31 (as claimed): while the worker of the latest accepted call is alive,
\* campaign_stats counts that worker's sends and no others: total_sent is
\* the number of targets this worker has counted, successful + failed at
\* most that number.
C31_CountersOfOwnCampaign ==
    (current_thread # 0 /\ is_alive(current_thread)) =>
      /\ campaign_stats.total_sent = Len(EventsOf(current_thread, "counted"))
      /\ campaign_stats.successful + campaign_stats.failed <= campaign_stats.total_sent
\* C32: a call of test_connection or send_single_email in which an SMTP
\* call fails returns the dict with status 'error'; no call of the caller
\* ever raises; and a step that returns 'success' or 'error' to the caller
\* changes neither is_sending nor cancelled nor campaign_stats, nor
\* anything else of the dispatcher.
C32_DirectCallsFailSoft ==
    [][ /\ \A f \in TestFailures \ {"none"} : test_connection(f) = "error"
        /\ \A f \in SendFailures \ {"none"} : send_single_email(f) = "error"
        /\ last_return' \in {"none", "started", "success", "error"}
        /\ (last_return' # last_return /\ last_return' \in {"success", "error"}) =>
              UNCHANGED << is_sending, send_cancelled, campaign_stats,
                           current_thread, worker, caller >>
      ]_vars

\* C32 witness: a direct call has failed on a dispatcher that never had a
\* campaign (so the error is no rejected send_bulk_emails), and the
\* dispatcher is as constructed.
C32_Witness ==
    /\ last_return = "error"
    /\ current_thread = 0
    /\ ~is_sending
    /\ ~send_cancelled
    /\ campaign_stats = InitialStats
\* C33 (as claimed): whenever is_sending is false no worker thread is alive
\* in its send loop.
C33_NotSendingMeansNoWorker ==
    ~is_sending => InLoop = {}

(***************************************************************************)
(* Further claims about the batch (checked under Spec, SpecFair, SpecCli)  *)
(***************************************************************************)

\* C34 (as claimed): verify_emails_batch called with an empty list returns
\* the empty list, raising nothing and calling no callback.
C34_EmptyBatchReturnsEmpty ==
    (emails = << >> /\ bpc # "idle") =>
      /\ bpc = "returned"
      /\ results = << >>
      /\ cblog = << >>

\* C35: every call of verify_emails_batch ends, whenever cancel_verification
\* is called or not: a batch whose futures were submitted returns (the call
\* with an empty list has ended at once, raising).
C35_BatchTerminates ==
    (bpc # "idle") ~> (bpc = "returned" \/ (bpc = "raised" /\ emails = << >>))

\* C35 witness: the batch has returned after a cancel request that stopped
\* the collector: a pipeline that had passed its entry check before the
\* request has finished, uncollected, before the return.
C35_Witness ==
    /\ bpc = "returned"
    /\ cancelled
    /\ broke
    /\ \E j \in Submitted : future[j] = "done" /\ j \notin yielded /\ entry[j] = "clear"
\* C36: in every result verify_single_email returned, status valid or risky
\* comes only with format and mx true, mx true only with format true, and
\* when format and mx are true status is what the probe returned (ping).
C36_FieldsConsistent ==
    \A i \in Submitted :
      future[i] = "done" =>
        LET r == result[i] IN
        /\ (r.status \in {"valid", "risky"} => r.format /\ r.mx)
        /\ (r.mx => r.format)
        /\ (r.format /\ r.mx => r.status = r.ping /\ calls[i].smtp = 1)

\* C36 witness: two pipelines have returned, one with the probe's "risky"
\* as its status, one stopped at the MX check with format true and mx false.
C36_Witness ==
    /\ \E i \in Submitted :
          /\ future[i] = "done"
          /\ result[i].status = "risky" /\ result[i].ping = "risky"
          /\ result[i].format /\ result[i].mx
    /\ \E j \in Submitted :
          /\ future[j] = "done"
          /\ result[j].format /\ ~result[j].mx
          /\ result[j].status = "invalid"
\* C39 (as claimed): the tally of every list verify_emails_batch returned
\* completes and the results are saved.
C39_TallyCompletes ==
    bpc # "tally_raised"

(***************************************************************************)
(* Further claims about SMTP sessions and progress reports                 *)
(***************************************************************************)

\* The session got its connection: the constructor returned.
Connected(s) == s.commands # << >> /\ ~(Len(s.commands) = 1 /\ s.exc # NoExc)

\* C37 (as claimed): every session a probe opened has been sent QUIT when
\* the probe returns.
C37_EverySessionQuit ==
    pDone =>
      \A k \in 1..Len(pOut.sessions) :
        Connected(pOut.sessions[k]) => Issued(pOut.sessions[k], "quit")

\* The arguments of the closing callback of the finally clause:
\* (100, len(emails), len(emails), {'status': 'completed'}).
FinalCallback(w) == [progress |-> 100, current |-> worker[w].n, total |-> worker[w].n]

\* C38 (as claimed): the closing callback of a worker that has left its
\* loop reports as current the number of targets attempted, total_sent.
C38_FinalCallbackReportsAttempted ==
    \A w \in Threads :
      (AtCompletion(w) /\ worker[w].cb) =>
        FinalCallback(w).current = campaign_stats.total_sent
====
